---- MODULE Spec2Model ----
(***************************************************************************)
(* Model of qtserialbluetooth.cpp: the custom serial backend that carries  *)
(* libdivecomputer's serial operations over a QBluetoothSocket (RFCOMM).   *)
(*                                                                         *)
(* The program is single threaded.  Every action below is either the code  *)
(* of one operation from its entry (or from the return of an event loop)   *)
(* up to its next suspension point or its return, or an event of the       *)
(* transport (the socket, the timer) that ends a suspension.               *)
(***************************************************************************)
EXTENDS Integers, Sequences, FiniteSets

(***************************************************************************)
(* Bounds of the model.                                                    *)
(***************************************************************************)
\* largest size a caller asks read for
MaxSize == 3
\* most transient errors the transport gives one read or write call
MaxRetries == 3
\* most calls of close in one behaviour
MaxCloseCalls == 2

(***************************************************************************)
(* Program constants.                                                      *)
(***************************************************************************)
\* dc_status_t (libdivecomputer/common.h), as used by the returns
DC_STATUS_SUCCESS == 0
DC_STATUS_UNSUPPORTED == -1
DC_STATUS_INVALIDARGS == -2
DC_STATUS_NOMEMORY == -3
DC_STATUS_NODEVICE == -4
DC_STATUS_IO == -6
DC_STATUS_PROTOCOL == -8

\* QBluetoothSocket::SocketError (Qt 5)
NoSocketError == -2
UnknownSocketError == -1
HostNotFoundError == 2
NetworkError == 7
UnsupportedProtocolError == 8
ServiceNotFoundError == 9
OperationError == 19

SocketErrors ==
    {NoSocketError, UnknownSocketError, HostNotFoundError, NetworkError,
     UnsupportedProtocolError, ServiceNotFoundError, OperationError}

\* int msec = 5000
msec == 5000

\* socketDescriptor(): -1 when not available, a descriptor otherwise
Descriptors == {-1, 3}

\* errno after a failed socket read or write: EINTR, EAGAIN, EIO
EINTR == 4
EAGAIN == 11
EIO == 5

VARIABLES
    pc,            \* position of the one control thread
    devaddr,       \* open: the address the caller passed
    ret,           \* the last return: [op, enum, val]
    out,           \* the caller's dc_serial_t* slot: "null" | "serial_device"
    serial_device, \* memory of the dc_serial_t: "none" | "alloc" | "freed"
    port,          \* serial_device->port: "null" | "serial_port"
    devtype,       \* serial_device->type
    serial_port,   \* memory of the serial_t: "none" | "alloc" | "freed"
    socket,        \* the QBluetoothSocket object: "none" | "live" | "deleted"
    sockState,     \* socket->state()
    sockError,     \* socket->error()
    sockDesc,      \* socket->socketDescriptor()
    attempts,      \* channels connectToService was called with, in order
    timers,        \* <<channel, msec>> of every timer.start, in order
    waits,         \* how each loop.exec() of open ended, in order
    err,           \* open: the local err, the value socket->error() gave
    staleRead,     \* the operations that have read a field of freed memory
    nFree,         \* number of free(serial_t)
    nDelete,       \* number of delete socket
    nShutdown,     \* number of socket->close()
    nClose,        \* number of calls of close
    size,          \* read, write: the requested size
    nbytes,        \* read, write: the accumulated count
    data,          \* read, write: the caller's buffer
    sent,          \* number of bytes the remote device has sent
    rx,            \* bytes buffered in the socket, unread
    delivered,     \* bytes the socket handed to the current read, in order
    results,       \* counts of the results socket->read or socket->write
                   \* gave the current call
    tx,            \* number of bytes buffered in the socket, unsent
    taken          \* bytes the socket took from the current write, in order

vars ==
    <<pc, devaddr, ret, out, serial_device, port, devtype, serial_port, socket,
      sockState, sockError, sockDesc, attempts, timers, waits, err,
      staleRead,
      nFree, nDelete, nShutdown, nClose, size, nbytes, data, sent, rx,
      delivered, results, tx, taken>>

openVars ==
    <<out, serial_device, port, devtype, serial_port, socket, sockState,
      sockError, sockDesc, attempts, timers, waits, err>>

closeVars == <<nFree, nDelete, nShutdown, nClose>>

readVars == <<size, nbytes, data, sent, rx, delivered, results>>

writeVars == <<tx, taken>>

NoResults == [partial |-> 0, zero |-> 0, transient |-> 0, hard |-> 0]

NoRet == [op |-> "none", enum |-> "none", val |-> 0]

Return(op, enum, val) == [op |-> op, enum |-> enum, val |-> val]

Init ==
    /\ pc = "idle"
    /\ devaddr = "none"
    /\ ret = NoRet
    /\ out = "null"
    /\ serial_device = "none"
    /\ port = "null"
    /\ devtype = "none"
    /\ serial_port = "none"
    /\ socket = "none"
    /\ sockState = "UnconnectedState"
    /\ sockError = NoSocketError
    /\ sockDesc = -1
    /\ attempts = <<>>
    /\ timers = <<>>
    /\ waits = <<>>
    /\ err = NoSocketError
    /\ staleRead = {}
    /\ nFree = 0
    /\ nDelete = 0
    /\ nShutdown = 0
    /\ nClose = 0
    /\ size = 0
    /\ nbytes = 0
    /\ data = <<>>
    /\ sent = 0
    /\ rx = <<>>
    /\ delivered = <<>>
    /\ results = NoResults
    /\ tx = 0
    /\ taken = <<>>

(***************************************************************************)
(* qt_serial_open and its caller dc_serial_qt_open.                        *)
(***************************************************************************)

\* AfterFirstWaitA with the fallback to channel 5 left out: a refused
\* attempt is waited on like a slow one.
AfterFirstWaitA_NoFallback(s) ==
    IF s \in {"ConnectingState", "UnconnectedState"} THEN "extended" ELSE "check"

\* AfterFirstWaitA with the extended wait left out: a slow attempt is given up
\* when the first timer fires.
AfterFirstWaitA_GiveUp(s) ==
    IF s = "UnconnectedState" THEN "fallback" ELSE "check"

\* Line 63 and line 68: what open does when the first wait on channel 1 has
\* ended with the socket in state s.
AfterFirstWaitA(s) ==
    IF s = "ConnectingState" THEN "extended"
    ELSE IF s = "UnconnectedState" THEN "fallback"
    ELSE "check"

\* Line 75: what open does when the first wait on channel 5 has ended.
AfterFirstWaitB(s) ==
    IF s = "ConnectingState" THEN "extended" ELSE "check"

\* NotConnected with the test of the state left out.
NotConnected_DescOnly(desc, s) == desc = -1

\* Line 83: the test that sends open to its failure path.
NotConnected(desc, s) ==
    desc = -1 \/ s # "ConnectedState"

\* Lines 90-104: the switch on err; the value returned and the enumeration
\* the returned expression belongs to.
ClassifyError(e) ==
    IF e \in {HostNotFoundError, ServiceNotFoundError}
    THEN [enum |-> "dc_status_t", val |-> DC_STATUS_NODEVICE]
    ELSE IF e = UnsupportedProtocolError
    THEN [enum |-> "dc_status_t", val |-> DC_STATUS_PROTOCOL]
    ELSE IF e = OperationError
    THEN [enum |-> "dc_status_t", val |-> DC_STATUS_UNSUPPORTED]
    ELSE IF e = NetworkError
    THEN [enum |-> "dc_status_t", val |-> DC_STATUS_IO]
    ELSE [enum |-> "QBluetoothSocket::SocketError", val |-> UnknownSocketError]

\* Lines 84-87: serial_port is freed and then serial_port->socket->error() is
\* evaluated through the freed memory.  The read gives the socket's error e
\* when the freed block still holds the old pointer, and any value when it
\* does not.
ErrorReadAfterFree(e) == SocketErrors

\* Lines 84-87: whether the call through the freed memory can fault.
CanFaultAfterFree == TRUE

\* The timer a wait runs under (lines 60, 66, 72, 78).
StartTimer(ch, ms) == timers' = Append(timers, <<ch, ms>>)

\* Lines 83-110 of qt_serial_open and lines 242-252 of dc_serial_qt_open.
OpenFinish ==
    IF NotConnected(sockDesc, sockState)
    THEN /\ serial_port' = "freed"
         /\ nFree' = nFree + 1
         /\ staleRead' = staleRead \cup {"open"}
         /\ \/ \E e \in ErrorReadAfterFree(sockError) :
                  /\ err' = e
                  /\ ret' = Return("open", ClassifyError(e).enum,
                                   ClassifyError(e).val)
                  /\ serial_device' = "freed"
                  /\ pc' = "idle"
            \/ /\ CanFaultAfterFree
               /\ pc' = "crashed"
               /\ UNCHANGED <<err, ret, serial_device>>
         /\ UNCHANGED <<out, port, devtype>>
    ELSE /\ port' = "serial_port"
         /\ devtype' = "DC_TRANSPORT_BLUETOOTH"
         /\ out' = "serial_device"
         /\ ret' = Return("open", "dc_status_t", DC_STATUS_SUCCESS)
         /\ pc' = "idle"
         /\ UNCHANGED <<serial_port, nFree, staleRead, err, serial_device>>

\* dc_serial_qt_open lines 225-241 and qt_serial_open lines 26-61: from the
\* call to the first loop.exec().  outNull: the caller passes out = NULL;
\* devMem, portMem: whether the two malloc succeed; s, e, d: the state, error
\* and descriptor of the socket when connectToService returns.  The address
\* goes unexamined into QBluetoothAddress(devaddr) (line 58).
OpenCall ==
    /\ pc = "idle"
    /\ ret = NoRet
    /\ serial_device = "none"
    /\ \E outNull \in BOOLEAN, devMem \in BOOLEAN, portMem \in BOOLEAN :
         IF outNull
         THEN /\ ret' = Return("open", "dc_status_t", DC_STATUS_INVALIDARGS)
              /\ UNCHANGED <<pc, openVars>>
         ELSE IF ~devMem
         THEN /\ ret' = Return("open", "dc_status_t", DC_STATUS_NOMEMORY)
              /\ UNCHANGED <<pc, openVars>>
         ELSE IF ~portMem
         THEN /\ ret' = Return("open", "dc_status_t", DC_STATUS_NOMEMORY)
              /\ serial_device' = "freed"
              /\ UNCHANGED <<pc, out, port, devtype, serial_port, socket,
                             sockState, sockError, sockDesc, attempts, timers,
                             waits, err>>
         ELSE /\ serial_device' = "alloc"
              /\ serial_port' = "alloc"
              /\ socket' = "live"
              /\ attempts' = Append(attempts, 1)
              /\ \/ /\ sockState' = "ConnectingState"
                    /\ UNCHANGED sockError
                 \/ /\ sockState' = "UnconnectedState"
                    /\ sockError' \in SocketErrors \ {NoSocketError}
              /\ sockDesc' \in Descriptors
              /\ StartTimer(1, msec)
              /\ pc' = "open_waitA1"
              /\ UNCHANGED <<ret, out, port, devtype, waits, err>>
    /\ UNCHANGED <<staleRead, closeVars, readVars>>
    /\ devaddr' \in {"valid", "malformed"}
    /\ UNCHANGED writeVars

\* The channel of the connection attempt in progress.
Channel == attempts[Len(attempts)]

\* The timer of the wait in progress.
Timer == timers[Len(timers)][2]

InOpenWait == pc \in {"open_waitA1", "open_waitA2", "open_waitB1", "open_waitB2"}

\* loop.exec() returns (lines 61, 67, 73, 79): the position after the wait.
AfterWait(p) ==
    CASE p = "open_waitA1" -> "open_afterA1"
      [] p = "open_waitA2" -> "open_afterA2"
      [] p = "open_waitB1" -> "open_afterB1"
      [] p = "open_waitB2" -> "open_afterB2"

LoopQuit(ev, s) ==
    /\ waits' = Append(waits, [ch |-> Channel, msec |-> Timer, ev |-> ev,
                               state |-> s])
    /\ pc' = AfterWait(pc)

\* The socket emits connected() (line 48): the loop of open quits.  No device
\* answers the null address a malformed devaddr gives.
SocketConnected ==
    /\ InOpenWait
    /\ devaddr = "valid"
    /\ sockState = "ConnectingState"
    /\ sockState' = "ConnectedState"
    /\ sockDesc' \in Descriptors
    /\ LoopQuit("connected", sockState')
    /\ UNCHANGED <<ret, out, serial_device, port, devtype, serial_port, socket,
                   sockError, attempts, timers, err, staleRead, closeVars,
                   readVars>>
    /\ UNCHANGED <<devaddr, writeVars>>

\* The socket emits error() (line 49): the attempt is over, the loop quits.
SocketError ==
    /\ InOpenWait
    /\ sockState = "ConnectingState"
    /\ sockState' = "UnconnectedState"
    /\ sockError' \in SocketErrors \ {NoSocketError}
    /\ sockDesc' \in Descriptors
    /\ LoopQuit("error", sockState')
    /\ UNCHANGED <<ret, out, serial_device, port, devtype, serial_port, socket,
                   attempts, timers, err, staleRead, closeVars, readVars>>
    /\ UNCHANGED <<devaddr, writeVars>>

\* The single-shot timer fires (line 55): the loop quits, the socket is as it
\* was.
TimerTimeout ==
    /\ InOpenWait
    /\ LoopQuit("timeout", sockState)
    /\ UNCHANGED <<ret, out, serial_device, port, devtype, serial_port, socket,
                   sockState, sockError, sockDesc, attempts, timers, err,
                   staleRead, closeVars, readVars>>
    /\ UNCHANGED <<devaddr, writeVars>>

\* Lines 63-110: after the first wait on channel 1.
OpenAfterA1 ==
    /\ pc = "open_afterA1"
    /\ LET next == AfterFirstWaitA(sockState) IN
         CASE next = "extended" ->
                /\ StartTimer(1, 3 * msec)
                /\ pc' = "open_waitA2"
                /\ UNCHANGED <<ret, out, serial_device, port, devtype,
                               serial_port, socket, sockState, sockError,
                               sockDesc, attempts, err, staleRead, nFree>>
           [] next = "fallback" ->
                /\ attempts' = Append(attempts, 5)
                /\ \/ /\ sockState' = "ConnectingState"
                      /\ UNCHANGED sockError
                   \/ /\ sockState' = "UnconnectedState"
                      /\ sockError' \in SocketErrors \ {NoSocketError}
                /\ sockDesc' \in Descriptors
                /\ StartTimer(5, msec)
                /\ pc' = "open_waitB1"
                /\ UNCHANGED <<ret, out, serial_device, port, devtype,
                               serial_port, socket, err, staleRead, nFree>>
           [] OTHER ->
                /\ OpenFinish
                /\ UNCHANGED <<socket, sockState, sockError, sockDesc,
                               attempts, timers>>
    /\ UNCHANGED <<waits, nDelete, nShutdown, nClose, readVars>>
    /\ UNCHANGED <<devaddr, writeVars>>

\* Lines 83-110: after the extended wait on channel 1.
OpenAfterA2 ==
    /\ pc = "open_afterA2"
    /\ OpenFinish
    /\ UNCHANGED <<socket, sockState, sockError, sockDesc, attempts, timers,
                   waits, nDelete, nShutdown, nClose, readVars>>
    /\ UNCHANGED <<devaddr, writeVars>>

\* Lines 75-110: after the first wait on channel 5.
OpenAfterB1 ==
    /\ pc = "open_afterB1"
    /\ IF AfterFirstWaitB(sockState) = "extended"
       THEN /\ StartTimer(5, 3 * msec)
            /\ pc' = "open_waitB2"
            /\ UNCHANGED <<ret, out, serial_device, port, devtype,
                           serial_port, err, staleRead, nFree>>
       ELSE /\ OpenFinish
            /\ UNCHANGED timers
    /\ UNCHANGED <<socket, sockState, sockError, sockDesc, attempts, waits,
                   nDelete, nShutdown, nClose, readVars>>
    /\ UNCHANGED <<devaddr, writeVars>>

\* Lines 83-110: after the extended wait on channel 5.
OpenAfterB2 ==
    /\ pc = "open_afterB2"
    /\ OpenFinish
    /\ UNCHANGED <<socket, sockState, sockError, sockDesc, attempts, timers,
                   waits, nDelete, nShutdown, nClose, readVars>>
    /\ UNCHANGED <<devaddr, writeVars>>

(***************************************************************************)
(* The handle the caller holds after open: the serial_t* it passes to the  *)
(* operations of qt_serial_ops.                                            *)
(***************************************************************************)
Device == IF out = "null" THEN "null" ELSE port

(***************************************************************************)
(* qt_serial_close.                                                        *)
(***************************************************************************)

\* Line 114: the test that makes close return at once; sock is the value
\* read from device->socket.
CloseSkips(device, sock) == device = "null" \/ sock = "null"

\* CloseStatus reporting a shutdown that failed.
CloseStatus_Shutdown(e) ==
    IF e = UnknownSocketError THEN DC_STATUS_IO ELSE DC_STATUS_SUCCESS

\* Line 122: the status close returns; e is the socket's error after
\* socket->close().
CloseStatus(e) == DC_STATUS_SUCCESS

\* Line 114 on a device that was freed: the values the read of
\* device->socket can give.
SocketReadAfterFree == {"null", "stale"}

\* Lines 117-120: socket->close(), delete device->socket, free(device).  The
\* buffers of the socket go with it.
Release ==
    /\ nShutdown' = nShutdown + 1
    /\ nDelete' = nDelete + 1
    /\ nFree' = nFree + 1
    /\ socket' = "deleted"
    /\ serial_port' = "freed"
    /\ rx' = <<>>
    /\ tx' = 0

\* The locals and the buffer of the read or write called before are gone
\* when another operation is called.
NoCall ==
    /\ size' = 0
    /\ nbytes' = 0
    /\ data' = <<>>
    /\ results' = NoResults
    /\ delivered' = <<>>
    /\ taken' = <<>>

\* Lines 112-123.
Close ==
    /\ pc = "idle"
    /\ ret.op # "none"
    /\ nClose < MaxCloseCalls
    /\ nClose' = nClose + 1
    /\ IF Device = "null"
       THEN /\ CloseSkips(Device, "null")
            /\ ret' = Return("close", "dc_status_t", DC_STATUS_SUCCESS)
            /\ UNCHANGED <<pc, nShutdown, nDelete, nFree, socket, serial_port,
                           sockState, sockError, staleRead, rx, tx>>
       ELSE IF serial_port = "alloc"
       THEN /\ ~CloseSkips(Device, "socket")
            /\ Release
            /\ sockState' = "UnconnectedState"
            /\ sockError' \in {sockError, UnknownSocketError}
            /\ ret' = Return("close", "dc_status_t", CloseStatus(sockError'))
            /\ UNCHANGED <<pc, staleRead>>
       ELSE /\ staleRead' = staleRead \cup {"close"}
            /\ \/ \E sock \in SocketReadAfterFree :
                    IF CloseSkips(Device, sock)
                    THEN /\ ret' = Return("close", "dc_status_t",
                                          DC_STATUS_SUCCESS)
                         /\ UNCHANGED <<pc, nShutdown, nDelete, nFree, socket,
                                        serial_port, rx, tx>>
                    ELSE /\ Release
                         /\ ret' = Return("close", "dc_status_t",
                                          CloseStatus(sockError))
                         /\ UNCHANGED pc
               \/ /\ pc' = "crashed"
                  /\ UNCHANGED <<ret, nShutdown, nDelete, nFree, socket,
                                 serial_port, rx, tx>>
            /\ UNCHANGED <<sockState, sockError>>
    /\ UNCHANGED <<out, serial_device, port, devtype, sockDesc, attempts,
                   timers, waits, err, sent>>
    /\ NoCall
    /\ UNCHANGED devaddr

(***************************************************************************)
(* qt_serial_read.                                                         *)
(***************************************************************************)

\* Store with the offset left out: socket->read(data, ...).
Store_AtStart(buf, off, chunk) ==
    [i \in 1..Len(buf) |-> IF i <= Len(chunk) THEN chunk[i] ELSE buf[i]]

\* Line 137: socket->read((char *) data + nbytes, ...) stores the chunk it
\* delivers at offset off of the buffer.
Store(buf, off, chunk) ==
    [i \in 1..Len(buf) |->
        IF i > off /\ i <= off + Len(chunk) THEN chunk[i - off] ELSE buf[i]]

\* ReadBranch without the wait for readyRead(): a zero-byte result is added
\* to the count and the loop goes round at once.
ReadBranch_Spin(rc, errno) ==
    IF rc < 0
    THEN IF errno = EINTR \/ errno = EAGAIN THEN "retry" ELSE "fail"
    ELSE "add"

\* ReadBranch with EAGAIN left out of the test of errno.
ReadBranch_EintrOnly(rc, errno) ==
    IF rc < 0
    THEN IF errno = EINTR THEN "retry" ELSE "fail"
    ELSE IF rc = 0 THEN "wait" ELSE "add"

\* Lines 139-149: what the loop does with the result rc of socket->read and
\* the errno it left.
ReadBranch(rc, errno) ==
    IF rc < 0
    THEN IF errno = EINTR \/ errno = EAGAIN THEN "retry" ELSE "fail"
    ELSE IF rc = 0 THEN "wait" ELSE "add"

\* Line 133: the loop condition.
ReadMore(n, sz) == n < sz

\* Lines 133 and 154: back at the head of the loop with n bytes accumulated.
ReadLoopHead(n, sz) ==
    IF ReadMore(n, sz)
    THEN /\ pc' = "read_loop"
         /\ ret' = NoRet
    ELSE /\ pc' = "idle"
         /\ ret' = Return("read", "count", n)

\* Lines 125-133: the call, up to the first pass of the loop.  The caller
\* passes NULL or a handle it has not closed.
ReadCall ==
    /\ pc = "idle"
    /\ ret.op # "none"
    /\ IF Device = "null"
       THEN /\ ret' = Return("read", "dc_status_t", DC_STATUS_INVALIDARGS)
            /\ UNCHANGED <<pc, size, nbytes, data, delivered, results, taken>>
       ELSE /\ serial_port = "alloc"
            /\ \E sz \in 0..MaxSize :
                 /\ size' = sz
                 /\ data' = [i \in 1..sz |-> 0]
                 /\ ReadLoopHead(0, sz)
            /\ nbytes' = 0
            /\ delivered' = <<>>
            /\ taken' = <<>>
            /\ results' = NoResults
    /\ UNCHANGED <<openVars, staleRead, closeVars, sent, rx>>
    /\ UNCHANGED <<devaddr, tx>>

\* The results socket->read can give when asked for at most max bytes:
\* <<rc, errno>>.  It delivers bytes that are buffered, gives 0 when none
\* is, and can fail with errno set.
ReadResults(max) ==
    {<<k, 0>> : k \in 1..(IF Len(rx) < max THEN Len(rx) ELSE max)}
    \cup (IF rx = <<>> THEN {<<0, 0>>} ELSE {})
    \cup {<<-1, EINTR>>, <<-1, EAGAIN>>, <<-1, EIO>>}

\* The kind of a result <<rc, errno>> of socket->read or socket->write.
ResultKind(r) ==
    IF r[1] > 0 THEN "partial"
    ELSE IF r[1] = 0 THEN "zero"
    ELSE IF r[2] \in {EINTR, EAGAIN} THEN "transient"
    ELSE "hard"

Count(r) == [results EXCEPT ![ResultKind(r)] = @ + 1]

\* Lines 135-152: one pass of the loop, from waitForReadyRead to the head of
\* the loop, to the return at line 143, or into the loop.exec() of line 148.
\* waitForReadyRead(device->timeout) returns with data buffered or without
\* (it timed out); its value is discarded, what the pass does depends on the
\* result of socket->read alone.
ReadPass ==
    /\ pc = "read_loop"
    /\ \E r \in ReadResults(size - nbytes) :
         LET rc == r[1]
             branch == ReadBranch(rc, r[2])
             chunk == SubSeq(rx, 1, rc)
         IN
         /\ ResultKind(r) = "transient" => results.transient < MaxRetries
         /\ results' = Count(r)
         /\ CASE branch = "retry" ->
                UNCHANGED <<pc, ret, nbytes, data, rx, delivered>>
           [] branch = "fail" ->
                /\ pc' = "idle"
                /\ ret' = Return("read", "int", -1)
                /\ UNCHANGED <<nbytes, data, rx, delivered>>
           [] branch = "wait" ->
                /\ pc' = "read_waitdata"
                /\ UNCHANGED <<ret, nbytes, data, rx, delivered>>
           [] OTHER ->
                /\ data' = Store(data, nbytes, chunk)
                /\ delivered' = delivered \o chunk
                /\ rx' = SubSeq(rx, rc + 1, Len(rx))
                /\ nbytes' = nbytes + rc
                /\ ReadLoopHead(nbytes + rc, size)
    /\ UNCHANGED <<openVars, staleRead, closeVars, size, sent>>
    /\ UNCHANGED <<devaddr, writeVars>>

\* Lines 146-151: the socket emits readyRead(), the loop of line 148 quits,
\* nbytes += rc adds the 0 of this pass and the loop goes on.
ReadResume ==
    /\ pc = "read_afterwait"
    /\ nbytes' = nbytes + 0
    /\ ReadLoopHead(nbytes + 0, size)
    /\ UNCHANGED <<openVars, staleRead, closeVars, size, data, sent, rx,
                   delivered, results>>
    /\ UNCHANGED <<devaddr, writeVars>>

\* DataArrives with the readyRead() of the socket not reaching the loop of
\* line 148: the byte is buffered and the wait goes on.
DataArrives_NoWake ==
    /\ socket = "live"
    /\ sockState = "ConnectedState"
    /\ pc \in {"idle", "read_loop", "read_waitdata"}
    /\ sent < MaxSize
    /\ sent' = sent + 1
    /\ rx' = Append(rx, sent + 1)
    /\ UNCHANGED <<pc, ret, openVars, staleRead, closeVars, size, nbytes, data,
                   delivered, results>>
    /\ UNCHANGED <<devaddr, writeVars>>

\* The remote device sends a byte: the socket buffers it and emits
\* readyRead().  The k-th byte sent is written k, so that the place and the
\* order of every byte can be told.
DataArrives ==
    /\ socket = "live"
    /\ sockState = "ConnectedState"
    /\ pc \in {"idle", "read_loop", "read_waitdata"}
    /\ sent < MaxSize
    /\ sent' = sent + 1
    /\ rx' = Append(rx, sent + 1)
    /\ pc' = IF pc = "read_waitdata" THEN "read_afterwait" ELSE pc
    /\ UNCHANGED <<ret, openVars, staleRead, closeVars, size, nbytes, data,
                   delivered, results>>
    /\ UNCHANGED <<devaddr, writeVars>>

(***************************************************************************)
(* qt_serial_write.                                                        *)
(***************************************************************************)

\* WriteBranch with a zero-byte result handled as read handles it: the loop
\* goes on.
WriteBranch_ZeroRetries(rc, errno) ==
    IF rc < 0
    THEN IF errno = EINTR \/ errno = EAGAIN THEN "retry" ELSE "fail"
    ELSE IF rc = 0 THEN "retry" ELSE "add"

\* Lines 171-178: what the loop does with the result rc of socket->write and
\* the errno it left.
WriteBranch(rc, errno) ==
    IF rc < 0
    THEN IF errno = EINTR \/ errno = EAGAIN THEN "retry" ELSE "fail"
    ELSE IF rc = 0 THEN "break" ELSE "add"

\* Line 165: the loop condition.
WriteMore(n, sz) == n < sz

\* Line 169: socket->write((char *) data + nbytes, ...) takes its k bytes at
\* offset off of the buffer.
Span(buf, off, k) == SubSeq(buf, off + 1, off + k)

\* Lines 165 and 183: back at the head of the loop with n bytes accumulated.
WriteLoopHead(n, sz) ==
    IF WriteMore(n, sz)
    THEN /\ pc' = "write_loop"
         /\ ret' = NoRet
    ELSE /\ pc' = "idle"
         /\ ret' = Return("write", "count", n)

\* Lines 157-165: the call, up to the first pass of the loop.  The caller
\* passes NULL or a handle it has not closed; the i-th byte of its buffer is
\* written i.
WriteCall ==
    /\ pc = "idle"
    /\ ret.op # "none"
    /\ IF Device = "null"
       THEN /\ ret' = Return("write", "dc_status_t", DC_STATUS_INVALIDARGS)
            /\ UNCHANGED <<pc, size, nbytes, data, results, taken, delivered>>
       ELSE /\ serial_port = "alloc"
            /\ \E sz \in 0..MaxSize :
                 /\ size' = sz
                 /\ data' = [i \in 1..sz |-> i]
                 /\ WriteLoopHead(0, sz)
            /\ nbytes' = 0
            /\ taken' = <<>>
            /\ delivered' = <<>>
            /\ results' = NoResults
    /\ UNCHANGED <<devaddr, openVars, staleRead, closeVars, sent, rx, tx>>

\* The results socket->write can give when offered max bytes: <<rc, errno>>.
\* It takes as many bytes as its buffer has room for, possibly none, and can
\* fail with errno set.
WriteResults(max) ==
    {<<k, 0>> : k \in 0..(IF MaxSize - tx < max THEN MaxSize - tx ELSE max)}
    \cup {<<-1, EINTR>>, <<-1, EAGAIN>>, <<-1, EIO>>}

\* Lines 167-181: one pass of the loop, from waitForBytesWritten to the head
\* of the loop or to a return (lines 175, 183).
WritePass ==
    /\ pc = "write_loop"
    /\ \E r \in WriteResults(size - nbytes) :
         LET rc == r[1]
             branch == WriteBranch(rc, r[2])
         IN
         /\ ResultKind(r) \in {"transient", "zero"} =>
               results[ResultKind(r)] < MaxRetries
         /\ results' = Count(r)
         /\ CASE branch = "retry" ->
                UNCHANGED <<pc, ret, nbytes, tx, taken>>
           [] branch = "fail" ->
                /\ pc' = "idle"
                /\ ret' = Return("write", "int", -1)
                /\ UNCHANGED <<nbytes, tx, taken>>
           [] branch = "break" ->
                /\ pc' = "idle"
                /\ ret' = Return("write", "count", nbytes)
                /\ UNCHANGED <<nbytes, tx, taken>>
           [] OTHER ->
                /\ taken' = taken \o Span(data, nbytes, rc)
                /\ tx' = tx + rc
                /\ nbytes' = nbytes + rc
                /\ WriteLoopHead(nbytes + rc, size)
    /\ UNCHANGED <<devaddr, openVars, staleRead, closeVars, size, data, sent,
                   rx, delivered>>

\* The socket sends a buffered byte to the remote device.
BytesWritten ==
    /\ socket = "live"
    /\ sockState = "ConnectedState"
    /\ pc \in {"idle", "write_loop"}
    /\ tx > 0
    /\ tx' = tx - 1
    /\ UNCHANGED <<pc, devaddr, ret, openVars, staleRead, closeVars, readVars,
                   taken>>

(***************************************************************************)
(* qt_serial_flush, qt_serial_get_received, qt_serial_get_transmitted.     *)
(***************************************************************************)

\* The queue selectors a caller can pass to flush.
Queues == {"DC_DIRECTION_INPUT", "DC_DIRECTION_OUTPUT", "DC_DIRECTION_ALL"}

\* Lines 188, 198, 206: the test that makes flush, get_received and
\* get_transmitted return DC_STATUS_INVALIDARGS; sock is device->socket.
NoSocket(device, sock) == device = "null" \/ sock = "null"

\* FlushStatus with the test of line 188 left out.
FlushStatus_NoCheck(device, sock, queue) == DC_STATUS_SUCCESS

\* Lines 188-193: what flush returns; queue is not looked at.
FlushStatus(device, sock, queue) ==
    IF NoSocket(device, sock) THEN DC_STATUS_INVALIDARGS ELSE DC_STATUS_SUCCESS

\* device->socket as an operation called on a handle reads it.
DeviceSocket == IF Device = "null" THEN "null" ELSE socket

\* Lines 186-194.
Flush ==
    /\ pc = "idle"
    /\ ret.op # "none"
    /\ Device = "null" \/ serial_port = "alloc"
    /\ \E queue \in Queues :
         ret' = Return("flush", "dc_status_t",
                       FlushStatus(Device, DeviceSocket, queue))
    /\ NoCall
    /\ UNCHANGED <<pc, devaddr, openVars, staleRead, closeVars, sent, rx, tx>>

\* BytesAvailable counting every byte that ever arrived.
BytesAvailable_Arrived == sent

\* Line 201: socket->bytesAvailable(), the bytes the socket has buffered
\* and that were not read.
BytesAvailable == Len(rx)

\* Line 209: socket->bytesToWrite(), the bytes the socket has taken and not
\* sent yet.
BytesToWrite == tx

\* Lines 198-201 and 206-209: the status on a missing socket, else the count.
Pending(op, device, sock, count) ==
    IF NoSocket(device, sock)
    THEN Return(op, "dc_status_t", DC_STATUS_INVALIDARGS)
    ELSE Return(op, "count", count)

\* Lines 196-202.
GetReceived ==
    /\ pc = "idle"
    /\ ret.op # "none"
    /\ Device = "null" \/ serial_port = "alloc"
    /\ ret' = Pending("get_received", Device, DeviceSocket, BytesAvailable)
    /\ NoCall
    /\ UNCHANGED <<pc, devaddr, openVars, staleRead, closeVars, sent, rx, tx>>

\* Lines 204-210.
GetTransmitted ==
    /\ pc = "idle"
    /\ ret.op # "none"
    /\ Device = "null" \/ serial_port = "alloc"
    /\ ret' = Pending("get_transmitted", Device, DeviceSocket, BytesToWrite)
    /\ NoCall
    /\ UNCHANGED <<pc, devaddr, openVars, staleRead, closeVars, sent, rx, tx>>

Next ==
    \/ OpenCall
    \/ SocketConnected
    \/ SocketError
    \/ TimerTimeout
    \/ OpenAfterA1
    \/ OpenAfterA2
    \/ OpenAfterB1
    \/ OpenAfterB2
    \/ Close
    \/ ReadCall
    \/ ReadPass
    \/ ReadResume
    \/ DataArrives
    \/ WriteCall
    \/ WritePass
    \/ BytesWritten
    \/ Flush
    \/ GetReceived
    \/ GetTransmitted

Spec == Init /\ [][Next]_vars

\* The program with a thread that keeps running (the loop of read makes its
\* next pass, the loop.exec() of line 148 returns once readyRead() was
\* emitted) and a remote device that goes on sending while it has bytes to
\* send.
LiveSpec ==
    /\ Init
    /\ [][Next]_vars
    /\ WF_vars(ReadPass)
    /\ WF_vars(ReadResume)
    /\ WF_vars(DataArrives)

(***************************************************************************)
(* The claims.                                                             *)
(***************************************************************************)

\* the error codes the switch of open names
Classified ==
    {HostNotFoundError, ServiceNotFoundError, UnsupportedProtocolError,
     OperationError, NetworkError}

\* open has returned and nothing was called since
OpenReturned == pc = "idle" /\ ret.op = "open"

\* open went through its waits and returned a failure
OpenFailed == OpenReturned /\ waits # <<>> /\ ret.val # DC_STATUS_SUCCESS

\* open returned success and the caller holds a connected handle
OpenSucceeded ==
    /\ OpenReturned
    /\ ret.val = DC_STATUS_SUCCESS
    /\ out = "serial_device"
    /\ port = "serial_port"
    /\ serial_port = "alloc"
    /\ socket = "live"
    /\ sockState = "ConnectedState"

\* the last wait of open ended with connected() on channel ch, and the socket
\* has a descriptor: the attempt on ch was accepted
Accepted(ch) ==
    /\ waits # <<>>
    /\ waits[Len(waits)].ch = ch
    /\ waits[Len(waits)].ev = "connected"
    /\ sockDesc # -1

\* the first wait on channel 1 ended with the socket unconnected
RefusedAtOnce == waits # <<>> /\ waits[1].state = "UnconnectedState"

\* the first timer fired with the socket of channel 1 still connecting
SlowOnA ==
    /\ waits # <<>>
    /\ waits[1].ev = "timeout"
    /\ waits[1].state = "ConnectingState"

\* C1: when the attempt on channel 1 is refused at once (the socket is
\* unconnected when the first wait ends), open never starts the 15000 ms timer
\* for channel 1, and when channel 5 then accepts, open returns success with a
\* connected handle.
C1_ChannelFallback ==
    RefusedAtOnce =>
        /\ \A i \in 1..Len(timers) : timers[i] # <<1, 3 * msec>>
        /\ (OpenReturned /\ Accepted(5)) => OpenSucceeded

C1_Witness == RefusedAtOnce /\ Accepted(5) /\ OpenSucceeded

\* C2: when the socket of channel 1 is still connecting as the 5000 ms timer
\* fires, open does not return at that point and never connects on channel 5,
\* and when the socket becomes connected before the 15000 ms timer fires, open
\* returns success.
C2_SlowSuccess ==
    SlowOnA =>
        /\ \A i \in 1..Len(attempts) : attempts[i] # 5
        /\ Len(waits) = 1 => ret.op # "open"
        /\ (OpenReturned /\ Len(waits) = 2 /\ Accepted(1)) => OpenSucceeded

C2_Witness ==
    SlowOnA /\ Len(waits) = 2 /\ Accepted(1) /\ OpenSucceeded
        /\ timers = <<(<<1, msec>>), (<<1, 3 * msec>>)>>

\* C3 (as claimed): open never returns a failure after the attempt on channel
\* 1 ended unconnected without having connected on channel 5.
C3_FallbackWheneverRefused ==
    (OpenFailed /\ \E i \in 1..Len(waits) :
                      waits[i].ch = 1 /\ waits[i].state = "UnconnectedState")
        => \E j \in 1..Len(attempts) : attempts[j] = 5

\* C4: open returns success, with the handle in the caller's slot and the
\* transport kind set to Bluetooth, exactly when the socket is connected and
\* has a descriptor after the waits; otherwise it returns a status other than
\* success and writes no handle.
C4_SuccessIffConnected ==
    OpenReturned =>
        IF sockState = "ConnectedState" /\ sockDesc # -1
        THEN /\ ret.val = DC_STATUS_SUCCESS
             /\ out = "serial_device"
             /\ port = "serial_port"
             /\ serial_port = "alloc"
             /\ devtype = "DC_TRANSPORT_BLUETOOTH"
        ELSE /\ ret.val # DC_STATUS_SUCCESS
             /\ out = "null"
             /\ port = "null"

C4_Witness ==
    /\ OpenSucceeded
    /\ devtype = "DC_TRANSPORT_BLUETOOTH"
    /\ Len(waits) = 2

\* C5 (as claimed): when open fails, the status it returns is the one the
\* table gives for the socket's last error.
C5_FailureClassification ==
    OpenFailed =>
        /\ sockError \in {HostNotFoundError, ServiceNotFoundError}
              => ret.val = DC_STATUS_NODEVICE
        /\ sockError = UnsupportedProtocolError => ret.val = DC_STATUS_PROTOCOL
        /\ sockError = OperationError => ret.val = DC_STATUS_UNSUPPORTED
        /\ sockError = NetworkError => ret.val = DC_STATUS_IO

\* C6 (as claimed): when open fails with an error outside the four groups, it
\* returns the Unknown kind: a value of the portable taxonomy, not a code of
\* the transport and not the value of another kind.
C6_UnknownIsPortable ==
    (OpenFailed /\ sockError \notin Classified /\ err = sockError) =>
        /\ ret.enum = "dc_status_t"
        /\ ret.val \notin {DC_STATUS_SUCCESS, DC_STATUS_NODEVICE,
                           DC_STATUS_PROTOCOL, DC_STATUS_UNSUPPORTED,
                           DC_STATUS_IO}

\* C7 (as claimed): after open returned a failure, neither the memory of the
\* handle nor the socket the call created is still allocated.
C7_FailedOpenReleasesAll ==
    (OpenReturned /\ ret.val # DC_STATUS_SUCCESS) =>
        /\ serial_device # "alloc"
        /\ serial_port # "alloc"
        /\ socket # "live"

\* C8 (as claimed): close returns success every time, a second close on the
\* same handle reads no freed memory, and nothing is released twice.
C8_IdempotentClose ==
    /\ ret.op = "close" => ret.val = DC_STATUS_SUCCESS
    /\ "close" \notin staleRead
    /\ nFree <= 1
    /\ nDelete <= 1

\* C9: close returns success whenever it returns, whatever the shutdown of
\* the socket gave, and a close on a connected handle has shut the socket
\* down, deleted it and freed the handle, once each.
C9_CloseReleasesOnce ==
    ret.op = "close" =>
        /\ ret.val = DC_STATUS_SUCCESS
        /\ (Device # "null" /\ "close" \notin staleRead) =>
              /\ nShutdown = 1
              /\ nDelete = 1
              /\ nFree = 1
              /\ socket = "deleted"
              /\ serial_port = "freed"

C9_Witness ==
    /\ ret.op = "close"
    /\ Device # "null"
    /\ nClose = 1
    /\ sockError = UnknownSocketError
    /\ socket = "deleted"

InRead == pc \in {"read_loop", "read_waitdata", "read_afterwait"}

\* C10: during a read on a connected handle the accumulated count never
\* exceeds size and the buffer holds the bytes delivered so far, in delivery
\* order, each chunk right after the one before; when the transport gave only
\* partial deliveries, zero-byte results and transient errors, read returns
\* size.
C10_ReadAccumulation ==
    /\ (InRead \/ (ret.op = "read" /\ ret.enum # "dc_status_t")) =>
          /\ nbytes <= size
          /\ Len(delivered) = nbytes
          /\ SubSeq(data, 1, nbytes) = delivered
    /\ (pc = "idle" /\ ret.op = "read" /\ ret.enum # "dc_status_t"
          /\ results.hard = 0) =>
          /\ ret.val = size
          /\ data = delivered

C10_Witness ==
    /\ pc = "idle"
    /\ ret.op = "read"
    /\ ret.val = 3
    /\ results.partial = 3
    /\ results.zero >= 1
    /\ results.transient >= 1
    /\ data = delivered

InWrite == pc = "write_loop"

\* write has returned and nothing was called since
WriteReturned == pc = "idle" /\ ret.op = "write"

\* C11: when socket->write reports a zero-byte transfer with no error after
\* the socket took k < size bytes, write makes no further attempt and returns
\* k, a count and not an error.
C11_ShortWrite ==
    /\ InWrite => results.zero = 0
    /\ (WriteReturned /\ results.zero > 0) =>
          /\ results.zero = 1
          /\ ret.enum = "count"
          /\ ret.val = Len(taken)
          /\ ret.val = nbytes
          /\ ret.val < size

C11_Witness ==
    /\ WriteReturned
    /\ results.zero = 1
    /\ results.partial >= 1
    /\ ret.val >= 1
    /\ ret.val < size

\* read has returned and nothing was called since
ReadReturned == pc = "idle" /\ ret.op = "read"

\* C12 (as claimed): read and write make no further attempt after a hard
\* failure of the socket, and what they return then is the I/O error kind,
\* whatever was transferred before.
C12_HardFailureIsIoError ==
    /\ (InRead \/ InWrite) => results.hard = 0
    /\ ((ReadReturned \/ WriteReturned) /\ results.hard > 0) =>
          /\ ret.enum = "dc_status_t"
          /\ ret.val = DC_STATUS_IO

\* C13: a transient result (EINTR, EAGAIN) of socket->read or socket->write
\* ends nothing and changes no progress: the call goes on at the same place
\* with the same count, the same buffer and the same bytes in the socket, so
\* that the next attempt is on the same span; the bytes a write has handed
\* over are at every moment the first nbytes bytes of its buffer, each once.
C13_TransientRetry ==
    /\ [](InWrite \/ (WriteReturned /\ ret.enum = "count")
            => taken = SubSeq(data, 1, nbytes))
    /\ [][results'.transient = results.transient + 1 =>
            /\ pc' = pc
            /\ pc \in {"read_loop", "write_loop"}
            /\ ret' = ret
            /\ nbytes' = nbytes
            /\ data' = data
            /\ delivered' = delivered
            /\ taken' = taken
            /\ rx' = rx
            /\ tx' = tx]_vars

C13_Witness ==
    /\ WriteReturned
    /\ ret.val = size
    /\ size >= 2
    /\ results.transient >= 2
    /\ results.partial >= 2
    /\ taken = data

\* the step in which the operation op returns
Returns(op) == ret' # ret /\ ret'.op = op

\* what a call that only asks leaves as it is: the handle, the socket and
\* the bytes the socket holds in either direction
HandleAndTransport ==
    <<openVars, closeVars, staleRead, devaddr, sent, rx, tx>>

\* C14 (as claimed): flush reports success on every handle, the null one
\* included.
C14_FlushAlwaysSuccess ==
    (pc = "idle" /\ ret.op = "flush") => ret.val = DC_STATUS_SUCCESS

\* C14 (amended): flush reports success on every handle that is not null,
\* whatever the queue selector, and DC_STATUS_INVALIDARGS on the null handle;
\* it returns at once and changes nothing of the handle, of the socket or of
\* the bytes waiting in either direction.
C14_FlushStatus ==
    [][Returns("flush") =>
          /\ pc = "idle" /\ pc' = "idle"
          /\ ret'.enum = "dc_status_t"
          /\ ret'.val = IF Device = "null" THEN DC_STATUS_INVALIDARGS
                        ELSE DC_STATUS_SUCCESS
          /\ UNCHANGED HandleAndTransport]_vars

C14_Witness ==
    /\ pc = "idle"
    /\ ret.op = "flush"
    /\ ret.val = DC_STATUS_SUCCESS
    /\ Device # "null"
    /\ sockState = "ConnectedState"
    /\ rx # <<>>
    /\ tx > 0

\* C15: get_received and get_transmitted return DC_STATUS_INVALIDARGS on the
\* null handle; on a connected handle they return at once, change nothing,
\* and give the number of bytes the socket holds unread (get_received) and
\* unsent (get_transmitted) at the moment of the call: 0 right after open
\* when nothing has arrived, and M when M bytes have arrived and none of
\* them was read.
C15_PendingCounts ==
    [][/\ (Returns("get_received") \/ Returns("get_transmitted")) =>
            /\ pc = "idle" /\ pc' = "idle"
            /\ UNCHANGED HandleAndTransport
            /\ IF Device = "null"
               THEN /\ ret'.enum = "dc_status_t"
                    /\ ret'.val = DC_STATUS_INVALIDARGS
               ELSE /\ ret'.enum = "count"
                    /\ sockState = "ConnectedState"
                    /\ ret.op = "open" => tx = 0 /\ Len(rx) = sent
       /\ (Returns("get_received") /\ Device # "null") =>
            ret'.val = Len(rx)
       /\ (Returns("get_transmitted") /\ Device # "null") =>
            ret'.val = tx]_vars

C15_Witness ==
    /\ pc = "idle"
    /\ ret.op = "get_received"
    /\ ret.enum = "count"
    /\ ret.val = Len(rx)
    /\ Len(rx) >= 2
    /\ Len(rx) < sent

\* C16 (as claimed): open with a malformed address makes no connection
\* attempt and returns DC_STATUS_INVALIDARGS.
C16_MalformedAddressRejected ==
    devaddr = "malformed" =>
        /\ attempts = <<>>
        /\ OpenReturned => ret.val = DC_STATUS_INVALIDARGS

\* C17: a zero-byte result without error sends read into the wait for
\* readyRead(), and nothing but the arrival of data ends that wait: no timer
\* runs beside it, so while the transport delivers nothing read stays there,
\* returns nothing and counts nothing.  What read returns is never a timeout
\* and never a count short of size.
C17_DataWaitUnbounded ==
  /\ [](ReadReturned =>
          \/ ret.enum = "count" /\ ret.val = size
          \/ ret.enum = "int" /\ ret.val = -1 /\ results.hard > 0
          \/ /\ ret.enum = "dc_status_t"
             /\ ret.val = DC_STATUS_INVALIDARGS
             /\ Device = "null")
  /\ [][/\ (pc = "read_loop" /\ results'.zero = results.zero + 1) =>
             /\ rx = <<>>
             /\ pc' = "read_waitdata"
             /\ ret' = ret
             /\ nbytes' = nbytes
        /\ pc = "read_waitdata" =>
             /\ ret' = ret
             /\ nbytes' = nbytes
             /\ \/ pc' = "read_waitdata" /\ rx' = rx
                \/ pc' = "read_afterwait" /\ sent' = sent + 1 /\ rx' # <<>>]_vars

C17_Witness ==
    /\ pc = "read_waitdata"
    /\ rx = <<>>
    /\ sent = MaxSize
    /\ nbytes >= 1
    /\ nbytes < size
    /\ ret = NoRet

\* the sum of the durations of the timers started so far
RECURSIVE TimerSum(_)
TimerSum(ts) == IF ts = <<>> THEN 0 ELSE ts[1][2] + TimerSum(Tail(ts))

\* the timers of one channel come in the order 5000 ms, 15000 ms
TierOrder ==
    \A ch \in {1, 5} :
        SelectSeq(timers, LAMBDA t : t[1] = ch) \in
            {<<>>, <<(<<ch, msec>>)>>, <<(<<ch, msec>>), (<<ch, 3 * msec>>)>>}

\* C18 (as claimed): open makes at most two attempts, channel 1 first and
\* channel 5 after it, starts at most four timers in the order 5000 ms,
\* 15000 ms per channel, 40000 ms in all at most, and is over only when it
\* has returned: with the handle in the caller's slot, or with a failure and
\* nothing in the slot.
C18_OpenTerminates ==
    /\ attempts \in {<<>>, <<1>>, <<1, 5>>}
    /\ Len(timers) <= 4
    /\ TierOrder
    /\ TimerSum(timers) <= 8 * msec
    /\ attempts # <<>> =>
          \/ pc \in {"open_waitA1", "open_waitA2", "open_waitB1", "open_waitB2",
                     "open_afterA1", "open_afterA2", "open_afterB1",
                     "open_afterB2"}
          \/ out = "serial_device" /\ port = "serial_port"
          \/ out = "null" /\ serial_device = "freed"

\* C20 (as claimed): open reads no field of the handle after it has freed
\* the handle.
C20_NoUseAfterRelease == "open" \notin staleRead

\* the remote device has yet to send, or the socket holds, the bytes the
\* read in progress still needs
RemainingComes == (MaxSize - sent) + Len(rx) >= size - nbytes

\* C19: a read on a connected handle whose remaining bytes the transport
\* will deliver returns in the end, and with the requested size unless a
\* hard error came; transient errors are finitely many and a zero-byte
\* result is followed by the arrival of data.  A read on a connected handle
\* returns only with the count equal to size or after a hard error.
C19_ReadLiveness ==
    /\ [](ReadReturned /\ ret.enum # "dc_status_t" =>
            \/ ret.enum = "count" /\ ret.val = size /\ nbytes = size
            \/ results.hard > 0)
    /\ (InRead /\ RemainingComes) ~>
            (ReadReturned /\ (results.hard = 0 => ret.val = size))

C19_Witness ==
    /\ ReadReturned
    /\ ret.enum = "count"
    /\ ret.val = size
    /\ size >= 2
    /\ sent = size
    /\ results.zero >= 2
    /\ results.hard = 0

====
